---- MODULE Spec2Model ----
(***************************************************************************)
(* A model of icongen (src/main.go): the icon pipeline generateIcons, the  *)
(* transforms cropCenter, resizeImage, addRoundedCorners, addPadding,      *)
(* shouldKeepPixel, and the validation validateConfig.                     *)
(*                                                                         *)
(* Images are values [k, w, h, ...] that record how a buffer was produced; *)
(* At(img, x, y) computes the pixel the code stores at (x, y), so that the *)
(* 1024 x 1024 buffers of the icon table can be sampled without being      *)
(* enumerated.  float64 arithmetic is IEEE 754 binary64 (53-bit mantissa,  *)
(* round to nearest even), computed exactly on multi-limb naturals.        *)
(***************************************************************************)
EXTENDS Integers, Sequences, FiniteSets, TLC

(***************************************************************************)
(* Naturals of any size: little-endian sequences of 14-bit limbs without   *)
(* leading zero limbs (TLC's own integers are 32 bits wide).               *)
(***************************************************************************)
LimbBits == 7 * 2
Limb == 2^LimbBits

RECURSIVE BNorm(_)
BNorm(a) ==
    IF a = <<>> THEN a
    ELSE IF a[Len(a)] = 0 THEN BNorm(SubSeq(a, 1, Len(a) - 1)) ELSE a

RECURSIVE BFromInt(_)
BFromInt(n) == IF n = 0 THEN <<>> ELSE <<n % Limb>> \o BFromInt(n \div Limb)

RECURSIVE BToInt(_)
BToInt(a) == IF a = <<>> THEN 0 ELSE Head(a) + Limb * BToInt(Tail(a))

BLimb(a, i) == IF i <= Len(a) THEN a[i] ELSE 0

RECURSIVE BAddC(_, _, _, _)
BAddC(a, b, i, c) ==
    IF i > Len(a) /\ i > Len(b)
    THEN (IF c = 0 THEN <<>> ELSE <<c>>)
    ELSE LET x == BLimb(a, i) + BLimb(b, i) + c
         IN  <<x % Limb>> \o BAddC(a, b, i + 1, x \div Limb)

BAdd(a, b) == BAddC(a, b, 1, 0)

RECURSIVE BSubC(_, _, _, _)
BSubC(a, b, i, c) ==
    IF i > Len(a) THEN <<>>
    ELSE LET x == BLimb(a, i) + Limb - BLimb(b, i) - c
         IN  <<x % Limb>> \o BSubC(a, b, i + 1, 1 - (x \div Limb))

\* a - b, for a >= b
BSub(a, b) == BNorm(BSubC(a, b, 1, 0))

RECURSIVE BMulSmallC(_, _, _, _)
BMulSmallC(a, d, i, c) ==
    IF i > Len(a)
    THEN (IF c = 0 THEN <<>> ELSE <<c>>)
    ELSE LET x == a[i] * d + c
         IN  <<x % Limb>> \o BMulSmallC(a, d, i + 1, x \div Limb)

\* a * d, for a limb-sized d
BMulSmall(a, d) == IF d = 0 THEN <<>> ELSE BMulSmallC(a, d, 1, 0)

RECURSIVE BMulAcc(_, _, _)
BMulAcc(a, b, j) ==
    IF j > Len(b) THEN <<>>
    ELSE BAdd(BMulSmall(a, b[j]), <<0>> \o BMulAcc(a, b, j + 1))

BMul(a, b) == IF a = <<>> \/ b = <<>> THEN <<>> ELSE BNorm(BMulAcc(a, b, 1))

RECURSIVE BGeAt(_, _, _)
BGeAt(a, b, i) ==
    IF i = 0 THEN TRUE
    ELSE IF a[i] # b[i] THEN a[i] > b[i] ELSE BGeAt(a, b, i - 1)

\* a >= b
BGe(a, b) == IF Len(a) # Len(b) THEN Len(a) > Len(b) ELSE BGeAt(a, b, Len(a))

\* a * 2^k
BShl(a, k) ==
    IF a = <<>> THEN <<>>
    ELSE [i \in 1..(k \div LimbBits) |-> 0] \o BMulSmall(a, 2^(k % LimbBits))

\* floor(a / 2^k)
BShr(a, k) ==
    LET d == k \div LimbBits
        r == k % LimbBits
    IN  IF d >= Len(a) THEN <<>>
        ELSE BNorm([i \in 1..(Len(a) - d) |->
                      (a[i + d] \div 2^r)
                      + (BLimb(a, i + d + 1) % 2^r) * 2^(LimbBits - r)])

\* bit i of a (bit 0 is the lowest)
BBit(a, i) == (BLimb(a, (i \div LimbBits) + 1) \div 2^(i % LimbBits)) % 2

\* a mod 2^k # 0
BLowNonzero(a, k) ==
    \/ \E i \in 1..Len(a) : i <= k \div LimbBits /\ a[i] # 0
    \/ BLimb(a, (k \div LimbBits) + 1) % 2^(k % LimbBits) # 0

RECURSIVE IntBits(_)
IntBits(n) == IF n = 0 THEN 0 ELSE 1 + IntBits(n \div 2)

BBitLen(a) == IF a = <<>> THEN 0 ELSE LimbBits * (Len(a) - 1) + IntBits(a[Len(a)])

\* The digit q of a long division step and what it leaves, <<q, t - q * d>>,
\* from an estimate q that is not too small and its product p = q * d.
RECURSIVE BDivCorrect(_, _, _, _)
BDivCorrect(t, d, q, p) ==
    IF BGe(t, p) THEN <<q, BSub(t, p)>>
    ELSE BDivCorrect(t, d, q - 1, BSub(p, d))

BDivEstimate(t, d, q) ==
    BDivCorrect(t, d, IF q > Limb - 1 THEN Limb - 1 ELSE q,
                BMulSmall(d, IF q > Limb - 1 THEN Limb - 1 ELSE q))

BDivShifted(t, d, n) ==
    BDivEstimate(t, d, (BLimb(t, n + 1) * Limb + BLimb(t, n)) \div d[n])

\* One limb of a long division (Knuth's algorithm D): for r < d, with d's top
\* limb at least Limb / 2, <<floor(r * Limb / d), (r * Limb) mod d>>.  The
\* digit estimated from the top limbs is at most 2 too large.
BDivDigit(r, d) == BDivShifted(IF r = <<>> THEN <<>> ELSE <<0>> \o r, d, Len(d))

RECURSIVE BDivDigits(_, _, _, _)

BDivNext(s, d, q, n) == BDivDigits(s[2], d, <<s[1]>> \o q, n - 1)

\* n more limbs of the quotient q of a long division that has left r
BDivDigits(r, d, q, n) ==
    IF n = 0 THEN <<BNorm(q), r # <<>>>>
    ELSE BDivNext(BDivDigit(r, d), d, q, n)

\* floor(r * Limb^4 / d) for r < d, and whether the division left a
\* remainder: <<quotient, inexact>>.
BDivFrac(r, d) == BDivDigits(r, d, <<>>, 4)

(***************************************************************************)
(* float64.  A finite value is m * 2^e with m = 0 or 2^52 <= m < 2^53;     *)
(* every float the program computes is non-negative, infinite or NaN, and  *)
(* far from the exponent range's ends, so sign, subnormals and overflow    *)
(* are left out.                                                           *)
(***************************************************************************)
MantBits == 50 + 3

FZero == [t |-> "fin", m |-> <<>>, e |-> 0]
FInf == [t |-> "inf", m |-> <<>>, e |-> 0]
FNaN == [t |-> "nan", m |-> <<>>, e |-> 0]

FFinite(m, e) == [t |-> "fin", m |-> m, e |-> e]

\* a rounded mantissa q that may have grown to 54 bits
FRenorm(q, e) ==
    IF BBitLen(q) > MantBits THEN FFinite(BShr(q, 1), e + 1) ELSE FFinite(q, e)

FRoundUp(q, e, guard, rest) ==
    FRenorm(IF guard /\ (rest \/ BBit(q, 0) = 1) THEN BAdd(q, <<1>>) ELSE q, e)

\* m with its k lowest bits rounded away
FRoundBits(m, e, sticky, k) ==
    FRoundUp(BShr(m, k), e + k, BBit(m, k - 1) = 1,
             BLowNonzero(m, k - 1) \/ sticky)

FRoundLen(m, e, sticky, n) ==
    IF n <= MantBits
    THEN FFinite(BShl(m, MantBits - n), e - (MantBits - n))
    ELSE FRoundBits(m, e, sticky, n - MantBits)

\* m * 2^e (m # 0; sticky: a non-zero part below m's lowest bit was dropped)
\* rounded to nearest, ties to even.
FRound(m, e, sticky) == FRoundLen(m, e, sticky, BBitLen(m))

\* float64(n) for an int n >= 0
FFromInt(n) == IF n = 0 THEN FZero ELSE FRound(BFromInt(n), 0, FALSE)

FMul(a, b) ==
    IF a.t = "nan" \/ b.t = "nan" THEN FNaN
    ELSE IF a.t = "inf" \/ b.t = "inf"
    THEN (IF (a.t = "fin" /\ a.m = <<>>) \/ (b.t = "fin" /\ b.m = <<>>)
          THEN FNaN ELSE FInf)
    ELSE IF a.m = <<>> \/ b.m = <<>> THEN FZero
    ELSE FRound(BMul(a.m, b.m), a.e + b.e, FALSE)

FDivQuot(f, lead, e) == FRound(BAdd(f[1], lead), e, f[2])

\* n / d * 2^(e + 4 * LimbBits) for mantissas n, d of the same bit length
FDivMant(n, d, e) ==
    IF BGe(n, d) THEN FDivQuot(BDivFrac(BSub(n, d), d), <<0, 0, 0, 0, 1>>, e)
    ELSE FDivQuot(BDivFrac(n, d), <<>>, e)

FDiv(a, b) ==
    IF a.t = "nan" \/ b.t = "nan" THEN FNaN
    ELSE IF a.t = "inf" THEN (IF b.t = "inf" THEN FNaN ELSE FInf)
    ELSE IF b.t = "inf" THEN FZero
    ELSE IF b.m = <<>> THEN (IF a.m = <<>> THEN FNaN ELSE FInf)
    ELSE IF a.m = <<>> THEN FZero
    ELSE \* both mantissas shifted to fill four limbs (the quotient is the same)
         FDivMant(BShl(a.m, 4 * LimbBits - MantBits),
                  BShl(b.m, 4 * LimbBits - MantBits), a.e - b.e - 4 * LimbBits)

FAdd(a, b) ==
    IF a.t = "nan" \/ b.t = "nan" THEN FNaN
    ELSE IF a.t = "inf" \/ b.t = "inf" THEN FInf
    ELSE IF a.m = <<>> THEN b
    ELSE IF b.m = <<>> THEN a
    ELSE LET e == IF a.e < b.e THEN a.e ELSE b.e
         IN  FRound(BAdd(BShl(a.m, a.e - e), BShl(b.m, b.e - e)), e, FALSE)

\* a - b, for finite a >= b
FSub(a, b) ==
    IF b.m = <<>> THEN a
    ELSE LET e == IF a.e < b.e THEN a.e ELSE b.e
             d == BSub(BShl(a.m, a.e - e), BShl(b.m, b.e - e))
         IN  IF d = <<>> THEN FZero ELSE FRound(d, e, FALSE)

\* int(a) for a finite a below 2^31: truncation toward zero
FTrunc(a) ==
    IF a.m = <<>> THEN 0
    ELSE IF a.e >= 0 THEN BToInt(BShl(a.m, a.e))
    ELSE BToInt(BShr(a.m, 0 - a.e))

FOne == FFromInt(1)

\* math.FMA(x, y, z): x * y + z with a single rounding (finite operands)
FFma(x, y, z) ==
    IF x.m = <<>> \/ y.m = <<>> THEN z
    ELSE IF z.m = <<>> THEN FRound(BMul(x.m, y.m), x.e + y.e, FALSE)
    ELSE LET pe == x.e + y.e
             e == IF pe < z.e THEN pe ELSE z.e
         IN  FRound(BAdd(BShl(BMul(x.m, y.m), pe - e), BShl(z.m, z.e - e)), e, FALSE)

(***************************************************************************)
(* The state of a run of the program.                                      *)
(***************************************************************************)
VARIABLES
    build,        \* the architecture the binary was built for
    pc,           \* the position of the run in main / generateIcons
    config,       \* the Config parseFlags returned
    inputFile,    \* what is stored at config.InputPath
    dirExists,    \* whether config.OutputDir exists
    files,        \* the files of config.OutputDir: name -> content
    sourceImg,    \* generateIcons' sourceImg
    idx,          \* the index in iconSizes of the loop's iconSize
    resized,      \* generateIcons' resized
    outputs,      \* the saveImage calls that returned nil, in order
    err,          \* the error the run ended with, "" for none
    call,         \* the arguments of a function called on its own
    ret,          \* what that call returned
    table         \* the package variable iconSizes, shared by every run

\* The Makefile builds for amd64 and arm64.  The Go specification leaves two
\* things to the build that this program's arithmetic meets: the int a NaN
\* converts to, and whether x*y + z is fused into one rounding (arm64 fuses
\* one of the two products of a sum of products; which one is the compiler's
\* choice).
Builds == {"amd64", "arm64_fuse_left", "arm64_fuse_right"}

\* Stands for math.MinInt64, which TLC's 32-bit integers cannot hold: only
\* comparisons with small ints are made on it.
MinInt64 == 0 - 2^30

\* int(NaN): 0x8000000000000000 on amd64 (CVTTSD2SQ), 0 on arm64 (FCVTZS).
IntOfNaN == IF build = "amd64" THEN MinInt64 ELSE 0

\* a - b in int64 arithmetic (wrapping around at MinInt64)
Sub64(a, b) == IF b = MinInt64 THEN MinInt64 + a ELSE a - b

\* Go's integer division truncates toward zero.
GoDiv(a, b) == IF a >= 0 THEN a \div b ELSE 0 - ((0 - a) \div b)

\* a*b + c*d as the build computes it
SumOfProducts(a, b, c, d) ==
    IF build = "arm64_fuse_left" THEN FFma(a, b, FMul(c, d))
    ELSE IF build = "arm64_fuse_right" THEN FFma(c, d, FMul(a, b))
    ELSE FAdd(FMul(a, b), FMul(c, d))

(***************************************************************************)
(* Pixels and images.  A pixel is a color.RGBA: <<R, G, B, A>>, 8 bits     *)
(* each, alpha-premultiplied.                                              *)
(***************************************************************************)
Transparent == <<0, 0, 0, 0>>

\* The pixel patterns of the source images: a solid opaque colour (the
\* tests' createTestImage), a fully transparent image, and an opaque image
\* whose every pixel differs from its neighbours (it names its coordinates).
Patterns == {"solid", "clear", "coord"}

PatternPixel(pat, x, y) ==
    IF pat = "solid" THEN <<255, 0, 0, 255>>
    ELSE IF pat = "clear" THEN Transparent
    ELSE <<x % 256, y % 256, (x + 2 * y) % 256, 255>>

\* A decoded source image of w x h pixels.
SourceImage(w, h, pat) == [k |-> "src", w |-> w, h |-> h, pat |-> pat]

\* cropCenter taking its rectangle from the top-left corner
cropTopLeft(img, percent) ==
    [k |-> "crop", w |-> GoDiv(img.w * percent, 100),
     h |-> GoDiv(img.h * percent, 100), src |-> img, offsetX |-> 0, offsetY |-> 0]

cropCenter(img, percent) ==
    LET width == img.w
        height == img.h
        cropWidth == GoDiv(width * percent, 100)
        cropHeight == GoDiv(height * percent, 100)
        offsetX == GoDiv(width - cropWidth, 2)
        offsetY == GoDiv(height - cropHeight, 2)
    IN  [k |-> "crop", w |-> cropWidth, h |-> cropHeight, src |-> img,
         offsetX |-> offsetX, offsetY |-> offsetY]

\* int(f) for a float64 f
IntOfFloat(f) == IF f.t = "fin" THEN FTrunc(f) ELSE IntOfNaN

FMax(a, b) == IF a >= b THEN a ELSE b

\* the buffer with the scaled source at its top-left corner
ResizedBufferTopLeft(img, size, scale, newWidth, newHeight) ==
    [k |-> "resize", w |-> size, h |-> size, src |-> img, scale |-> scale,
     newWidth |-> newWidth, newHeight |-> newHeight,
     offsetX |-> 0, offsetY |-> 0]

\* The buffer resizeImage returns: size x size, with the scaled source in
\* [offsetX, offsetX + newWidth) x [offsetY, offsetY + newHeight) (lines
\* 275-345).
ResizedBuffer(img, size, scale, newWidth, newHeight) ==
    [k |-> "resize", w |-> size, h |-> size, src |-> img, scale |-> scale,
     newWidth |-> newWidth, newHeight |-> newHeight,
     offsetX |-> GoDiv(Sub64(size, newWidth), 2),
     offsetY |-> GoDiv(Sub64(size, newHeight), 2)]

\* lines 271-273: the scaled dimensions
ScaledBuffer(img, size, scale) ==
    ResizedBuffer(img, size, scale,
                  IntOfFloat(FMul(FFromInt(img.w), scale)),
                  IntOfFloat(FMul(FFromInt(img.h), scale)))

\* resizeImage allocating newWidth x newHeight instead of size x size
resizeToContent(img, size) ==
    [k |-> "resize", w |-> IntOfFloat(FMul(FFromInt(img.w), FDiv(FFromInt(size), FFromInt(FMax(img.w, img.h))))),
     h |-> IntOfFloat(FMul(FFromInt(img.h), FDiv(FFromInt(size), FFromInt(FMax(img.w, img.h))))),
     src |-> img, scale |-> FDiv(FFromInt(size), FFromInt(FMax(img.w, img.h))),
     newWidth |-> size, newHeight |-> size, offsetX |-> 0, offsetY |-> 0]

resizeImage(img, size) ==
    ScaledBuffer(img, size, FDiv(FFromInt(size), FFromInt(FMax(img.w, img.h))))

\* bilinearInterpolate giving each neighbour the other one's weight
bilinearInterpolateSwapped(c00, c10, c01, c11, fracX, fracY) ==
    LET top == SumOfProducts(c00, fracX, c10, FSub(FOne, fracX))
        bottom == SumOfProducts(c01, fracX, c11, FSub(FOne, fracX))
    IN  SumOfProducts(top, fracY, bottom, FSub(FOne, fracY))

bilinearInterpolate(c00, c10, c01, c11, fracX, fracY) ==
    LET top == SumOfProducts(c00, FSub(FOne, fracX), c10, fracX)
        bottom == SumOfProducts(c01, FSub(FOne, fracX), c11, fracX)
    IN  SumOfProducts(top, FSub(FOne, fracY), bottom, fracY)

\* shouldKeepPixel compares math.Sqrt(dx*dx + dy*dy) <= float64(radius), with
\* dx*dx + dy*dy an exactly represented integer n.  math.Sqrt is correctly
\* rounded and monotonic and radius is representable, so the comparison is
\* n <= radius*radius: for n > radius*radius the root exceeds radius by more
\* than 1/(2*radius + 1), far above half an ulp of radius.
\* shouldKeepPixel with the corner test left out
keepEveryPixel(x, y, size, radius) == TRUE

\* shouldKeepPixel dropping the pixels at distance radius exactly
shouldKeepPixelStrict(x, y, size, radius) ==
    IF radius = 0 THEN TRUE
    ELSE IF x >= radius /\ x < size - radius THEN TRUE
    ELSE IF y >= radius /\ y < size - radius THEN TRUE
    ELSE LET centerX == IF x < radius THEN radius ELSE size - radius
             centerY == IF y < radius THEN radius ELSE size - radius
         IN  (x - centerX) * (x - centerX) + (y - centerY) * (y - centerY)
                 < radius * radius

\* shouldKeepPixel keeping, in a corner zone, the pixels outside the circle
shouldKeepPixelOutsideCircle(x, y, size, radius) ==
    IF radius = 0 THEN TRUE
    ELSE IF x >= radius /\ x < size - radius THEN TRUE
    ELSE IF y >= radius /\ y < size - radius THEN TRUE
    ELSE LET centerX == IF x < radius THEN radius ELSE size - radius
             centerY == IF y < radius THEN radius ELSE size - radius
         IN  (x - centerX) * (x - centerX) + (y - centerY) * (y - centerY)
                 >= radius * radius

shouldKeepPixel(x, y, size, radius) ==
    IF radius = 0 THEN TRUE
    ELSE LET inTopLeft == x < radius /\ y < radius
             inTopRight == x >= size - radius /\ y < radius
             inBottomLeft == x < radius /\ y >= size - radius
             inBottomRight == x >= size - radius /\ y >= size - radius
         IN  IF ~inTopLeft /\ ~inTopRight /\ ~inBottomLeft /\ ~inBottomRight
             THEN TRUE
             ELSE LET centerX == IF inTopLeft THEN radius
                                 ELSE IF inTopRight THEN size - radius
                                 ELSE IF inBottomLeft THEN radius
                                 ELSE size - radius
                      centerY == IF inTopLeft THEN radius
                                 ELSE IF inTopRight THEN radius
                                 ELSE IF inBottomLeft THEN size - radius
                                 ELSE size - radius
                      dx == x - centerX
                      dy == y - centerY
                  IN  dx * dx + dy * dy <= radius * radius

\* addRoundedCorners with a radius of at least one pixel
addRoundedCornersAtLeast1(img, radius) ==
    [k |-> "round", w |-> img.w, h |-> img.h, src |-> img, size |-> img.w,
     radius |-> IF radius < 1 THEN 1 ELSE radius]

addRoundedCorners(img, radius) ==
    [k |-> "round", w |-> img.w, h |-> img.h, src |-> img, size |-> img.w,
     radius |-> radius]

\* the canvas with the image drawn at its top-left corner
PaddedCanvasTopLeft(img, paddingPercent) ==
    [k |-> "canvas", w |-> img.w + 2 * GoDiv(img.w * paddingPercent, 100),
     h |-> img.w + 2 * GoDiv(img.w * paddingPercent, 100), src |-> img,
     offsetX |-> 0, offsetY |-> 0, currentSize |-> img.w]

\* The canvas addPadding draws the image into (lines 383-401).
PaddedCanvas(img, paddingPercent) ==
    LET currentSize == img.w
        paddingSize == GoDiv(currentSize * paddingPercent, 100)
        paddedSize == currentSize + (paddingSize * 2)
    IN  [k |-> "canvas", w |-> paddedSize, h |-> paddedSize, src |-> img,
         offsetX |-> paddingSize, offsetY |-> paddingSize,
         currentSize |-> currentSize]

\* addPadding without the resize back to targetSize
addPaddingOnly(img, paddingPercent, targetSize) ==
    IF paddingPercent <= 0 THEN img ELSE PaddedCanvas(img, paddingPercent)

\* addPadding without its early return
addPaddingAlways(img, paddingPercent, targetSize) ==
    resizeImage(PaddedCanvas(img, FMax(paddingPercent, 0)), targetSize)

addPadding(img, paddingPercent, targetSize) ==
    IF paddingPercent <= 0 THEN img
    ELSE resizeImage(PaddedCanvas(img, paddingPercent), targetSize)

\* the clamp keeping the fractional weight it found
SrcClampKeepsWeight(srcf, src, n) ==
    IF src >= n - 1 THEN <<n - 2, FSub(srcf, FFromInt(src))>>
    ELSE <<src, FSub(srcf, FFromInt(src))>>

\* lines 294-311: the base source coordinate src = int(srcf) and the weight
\* srcf - float64(src), clamped at the last source pixel
SrcClamp(srcf, src, n) ==
    IF src >= n - 1 THEN <<n - 2, FOne>>
    ELSE <<src, FSub(srcf, FFromInt(src))>>

SrcFloor(srcf, n) == SrcClamp(srcf, IntOfFloat(srcf), n)

\* The source coordinate and weight of destination coordinate x on one axis
\* (lines 290-311): <<src, frac>>, for a source of n pixels on that axis.
SrcCoord(x, scale, n) == SrcFloor(FDiv(FFromInt(x), scale), n)

\* uint16(f), then the 8 bits image.RGBA.Set keeps of a 16-bit channel
Channel8(f) == IntOfFloat(f) \div 256

\* img.At(x, y).RGBA(): the 16-bit channels of an 8-bit pixel
Channel16(c) == c * 257

RECURSIVE At(_, _, _)

\* lines 316-339: the four neighbours are read and each channel interpolated
Interpolated(c00, c10, c01, c11, fracX, fracY) ==
    [i \in 1..4 |->
        Channel8(bilinearInterpolate(
            FFromInt(Channel16(c00[i])), FFromInt(Channel16(c10[i])),
            FFromInt(Channel16(c01[i])), FFromInt(Channel16(c11[i])),
            fracX, fracY))]

\* lines 313-340: the guard and the pixel written at source coordinates sx, sy
ResizeSample(src, sx, sy) ==
    IF sx[1] >= 0 /\ sy[1] >= 0
    THEN Interpolated(At(src, sx[1], sy[1]), At(src, sx[1] + 1, sy[1]),
                      At(src, sx[1], sy[1] + 1), At(src, sx[1] + 1, sy[1] + 1),
                      sx[2], sy[2])
    ELSE <<>>

\* The pixel resizeImage's loop body writes for loop indices (x, y), lines
\* 289-339, or <<>> when the guard of line 313 skips the pixel.
ResizePixel(img, x, y) ==
    ResizeSample(img.src, SrcCoord(x, img.scale, img.src.w),
                 SrcCoord(y, img.scale, img.src.h))

\* Whether resizeImage's loops reach destination pixel (x, y).
InContent(img, x, y) ==
    /\ x - img.offsetX >= 0 /\ x - img.offsetX < img.newWidth
    /\ y - img.offsetY >= 0 /\ y - img.offsetY < img.newHeight

\* Whether resizeImage writes destination pixel (x, y).
Written(img, x, y) ==
    /\ InContent(img, x, y)
    /\ ResizePixel(img, x - img.offsetX, y - img.offsetY) # <<>>

\* A pixel of image.NewRGBA's zeroed buffer that was not written stays zero.
Stored(p) == IF p = <<>> THEN Transparent ELSE p

\* img.At(x, y): the pixel of a buffer, the zero colour outside its bounds.
At(img, x, y) ==
    IF x < 0 \/ y < 0 \/ x >= img.w \/ y >= img.h THEN Transparent
    ELSE IF img.k = "src" THEN PatternPixel(img.pat, x, y)
    ELSE IF img.k = "crop" THEN At(img.src, img.offsetX + x, img.offsetY + y)
    ELSE IF img.k = "resize"
    THEN (IF InContent(img, x, y)
          THEN Stored(ResizePixel(img, x - img.offsetX, y - img.offsetY))
          ELSE Transparent)
    ELSE IF img.k = "round"
    THEN (IF x < img.size /\ y < img.size
          THEN (IF shouldKeepPixel(x, y, img.size, img.radius)
                THEN At(img.src, x, y) ELSE Transparent)
          ELSE Transparent)
    ELSE \* "canvas"
         (IF /\ x >= img.offsetX /\ x < img.offsetX + img.currentSize
             /\ y >= img.offsetY /\ y < img.offsetY + img.currentSize
          THEN At(img.src, x - img.offsetX, y - img.offsetY)
          ELSE Transparent)

(***************************************************************************)
(* The program: main, validateConfig, generateIcons, loadImage, saveImage. *)
(***************************************************************************)
vars == <<build, pc, config, inputFile, dirExists, files, sourceImg, idx,
          resized, outputs, err, call, ret, table>>

\* the table with a retina entry of the base icon after it
iconSizesWithRetinaBase ==
    <<[Name |-> "icon_16x16.png", Size |-> 16],
      [Name |-> "icon_512x512@2x.png", Size |-> 1024],
      [Name |-> "icon_1024x1024.png", Size |-> 1024],
      [Name |-> "icon_1024x1024@2x.png", Size |-> 1024 * 2]>>

iconSizes == <<
    [Name |-> "icon_16x16.png", Size |-> 16],
    [Name |-> "icon_16x16@2x.png", Size |-> 32],
    [Name |-> "icon_32x32.png", Size |-> 32],
    [Name |-> "icon_32x32@2x.png", Size |-> 64],
    [Name |-> "icon_128x128.png", Size |-> 128],
    [Name |-> "icon_128x128@2x.png", Size |-> 256],
    [Name |-> "icon_256x256.png", Size |-> 256],
    [Name |-> "icon_256x256@2x.png", Size |-> 512],
    [Name |-> "icon_512x512.png", Size |-> 512],
    [Name |-> "icon_512x512@2x.png", Size |-> 1024],
    [Name |-> "icon_1024x1024.png", Size |-> 1024] >>

\* strings.TrimSuffix
TrimSuffix(s, suffix) ==
    IF Len(s) >= Len(suffix) /\ SubSeq(s, Len(s) - Len(suffix) + 1, Len(s)) = suffix
    THEN SubSeq(s, 1, Len(s) - Len(suffix))
    ELSE s

\* filepath.Glob's match of a file name of the directory against icon_*.png
MatchesIconGlob(name) ==
    /\ Len(name) >= Len("icon_") + Len(".png")
    /\ SubSeq(name, 1, Len("icon_")) = "icon_"
    /\ SubSeq(name, Len(name) - Len(".png") + 1, Len(name)) = ".png"

NoImage == [k |-> "none"]
NoFiles == [n \in {} |-> NoImage]
WithFile(fs, name, content) ==
    [n \in DOMAIN fs \cup {name} |-> IF n = name THEN content ELSE fs[n]]

\* validateConfig with the upper limits compared with >=
validateConfigExclusive(cfg, input) ==
    IF input.kind = "missing" THEN "input image not found"
    ELSE IF cfg.TrimPercent < 1 \/ cfg.TrimPercent >= 100
    THEN "trim percent must be between 1 and 100"
    ELSE IF cfg.RadiusPercent < 0 \/ cfg.RadiusPercent >= 50
    THEN "radius percent must be between 0 and 50"
    ELSE IF cfg.PaddingPercent < 0 \/ cfg.PaddingPercent >= 50
    THEN "padding percent must be between 0 and 50"
    ELSE ""

\* validateConfig without the os.Stat of the input
validateConfigNoStat(cfg, input) ==
    IF cfg.TrimPercent < 1 \/ cfg.TrimPercent > 100
    THEN "trim percent must be between 1 and 100"
    ELSE IF cfg.RadiusPercent < 0 \/ cfg.RadiusPercent > 50
    THEN "radius percent must be between 0 and 50"
    ELSE IF cfg.PaddingPercent < 0 \/ cfg.PaddingPercent > 50
    THEN "padding percent must be between 0 and 50"
    ELSE ""

\* validateConfig accepting a radius percent of up to 100
validateConfigRadiusTo100(cfg, input) ==
    IF input.kind = "missing" THEN "input image not found"
    ELSE IF cfg.TrimPercent < 1 \/ cfg.TrimPercent > 100
    THEN "trim percent must be between 1 and 100"
    ELSE IF cfg.RadiusPercent < 0 \/ cfg.RadiusPercent > 100
    THEN "radius percent must be between 0 and 100"
    ELSE IF cfg.PaddingPercent < 0 \/ cfg.PaddingPercent > 50
    THEN "padding percent must be between 0 and 50"
    ELSE ""

\* validateConfig: the error it returns, "" for nil
validateConfig(cfg, input) ==
    IF input.kind = "missing" THEN "input image not found"
    ELSE IF cfg.TrimPercent < 1 \/ cfg.TrimPercent > 100
    THEN "trim percent must be between 1 and 100"
    ELSE IF cfg.RadiusPercent < 0 \/ cfg.RadiusPercent > 50
    THEN "radius percent must be between 0 and 50"
    ELSE IF cfg.PaddingPercent < 0 \/ cfg.PaddingPercent > 50
    THEN "padding percent must be between 0 and 50"
    ELSE ""

\* the padding decision without the exemption of icon_1024x1024.png
ProcessedNoExemption(img, cfg, iconSize) ==
    IF cfg.PaddingPercent > 0
    THEN addPadding(img, cfg.PaddingPercent, iconSize.Size)
    ELSE img

\* The padding decision of generateIcons, made for the regular and again for
\* the rounded variant (lines 173-180 and 198-205).
Processed(img, cfg, iconSize) ==
    LET shouldApplyPadding ==
            /\ cfg.PaddingPercent > 0
            /\ ~(cfg.PaddingIOSMode /\ iconSize.Name = "icon_1024x1024.png")
    IN  IF shouldApplyPadding
        THEN addPadding(img, cfg.PaddingPercent, iconSize.Size)
        ELSE img

\* the rounded variant saved under the name of the regular one
roundedNameUnmarked(iconSize) == iconSize.Name

\* the rounded name with the marker after the extension
roundedNameAfterExtension(iconSize) == iconSize.Name \o "_rounded.png"

roundedName(iconSize) == TrimSuffix(iconSize.Name, ".png") \o "_rounded.png"

\* the rounded variant made by masking the padded regular variant
ProcessedRoundedAfterPadding(img, cfg, iconSize) ==
    addRoundedCorners(Processed(img, cfg, iconSize),
                      GoDiv(iconSize.Size * cfg.RadiusPercent, 100))

\* The rounded variant of the loop's iconSize (lines 190-207).
ProcessedRounded(img, cfg, iconSize) ==
    LET radius == GoDiv(iconSize.Size * cfg.RadiusPercent, 100)
        rounded == addRoundedCorners(img, radius)
    IN  Processed(rounded, cfg, iconSize)

\* saveImage returned nil: the file holds the encoded image
Saved(name, size, variant, img) ==
    /\ files' = WithFile(files, name, [k |-> "png", img |-> img])
    /\ outputs' = Append(outputs, [Name |-> name, Size |-> size,
                                   variant |-> variant, img |-> img])

\* main reporting validateConfig's error and going on to generateIcons
ValidateAndGoOn ==
    /\ pc = "main"
    /\ err' = validateConfig(config, inputFile)
    /\ pc' = "mkdir"
    /\ UNCHANGED <<build, config, inputFile, dirExists, files, sourceImg, idx,
                   resized, outputs, call, ret,
                   table>>

\* main, lines 47-52: validateConfig, and exit status 1 on its error
Validate ==
    /\ pc = "main"
    /\ LET e == validateConfig(config, inputFile)
       IN  /\ err' = e
           /\ pc' = IF e # "" THEN "exit1" ELSE "mkdir"
    /\ UNCHANGED <<build, config, inputFile, dirExists, files, sourceImg, idx,
                   resized, outputs, call, ret,
                   table>>

\* generateIcons, line 136: os.MkdirAll
MkdirAll ==
    /\ pc = "mkdir"
    /\ dirExists' = TRUE
    /\ pc' = "clean"
    /\ UNCHANGED <<build, config, inputFile, files, sourceImg, idx, resized,
                   outputs, err, call, ret,
                   table>>

\* lines 136-138: os.MkdirAll fails
MkdirAllFail ==
    /\ pc = "mkdir"
    /\ ~dirExists
    /\ err' = "failed to create output directory"
    /\ pc' = "exit1"
    /\ UNCHANGED <<build, config, inputFile, dirExists, files, sourceImg, idx,
                   resized, outputs, call, ret,
                   table>>

\* lines 141-148: with config.Clean, os.Remove on every match of icon_*.png;
\* the result of os.Remove is dropped, so a match may stay (kept).
Clean ==
    /\ pc = "clean"
    /\ IF config.Clean
       THEN \E kept \in SUBSET {n \in DOMAIN files : MatchesIconGlob(n)} :
                files' = [n \in {m \in DOMAIN files :
                                    ~MatchesIconGlob(m) \/ m \in kept} |-> files[n]]
       ELSE files' = files
    /\ pc' = "load"
    /\ UNCHANGED <<build, config, inputFile, dirExists, sourceImg, idx, resized,
                   outputs, err, call, ret,
                   table>>

\* lines 151-154 and loadImage: the file decodes
LoadImage ==
    /\ pc = "load"
    /\ inputFile.kind = "png"
    /\ sourceImg' = SourceImage(inputFile.w, inputFile.h, inputFile.pat)
    /\ pc' = "crop"
    /\ UNCHANGED <<build, config, inputFile, dirExists, files, idx, resized,
                   outputs, err, call, ret,
                   table>>

\* lines 151-154: os.Open or image.Decode fails
LoadImageFail ==
    /\ pc = "load"
    /\ inputFile.kind # "png"
    /\ err' = "failed to load source image"
    /\ pc' = "exit1"
    /\ UNCHANGED <<build, config, inputFile, dirExists, files, sourceImg, idx,
                   resized, outputs, call, ret,
                   table>>

\* lines 157-163
Crop ==
    /\ pc = "crop"
    /\ sourceImg' = IF config.CropEnabled
                    THEN cropCenter(sourceImg, config.TrimPercent)
                    ELSE sourceImg
    /\ idx' = 1
    /\ pc' = "resize"
    /\ UNCHANGED <<build, config, inputFile, dirExists, files, resized,
                   outputs, err, call, ret,
                   table>>

\* the loop resizing the source in place: the next spec reads the result
ResizeInPlace ==
    /\ pc = "resize"
    /\ idx <= Len(iconSizes)
    /\ resized' = resizeImage(sourceImg, iconSizes[idx].Size)
    /\ sourceImg' = resized'
    /\ pc' = "regular"
    /\ UNCHANGED <<build, config, inputFile, dirExists, files, idx,
                   outputs, err, call, ret, table>>

\* lines 166-170: the loop takes its next iconSize and resizes the source
Resize ==
    /\ pc = "resize"
    /\ idx <= Len(iconSizes)
    /\ resized' = resizeImage(sourceImg, iconSizes[idx].Size)
    /\ pc' = "regular"
    /\ UNCHANGED <<build, config, inputFile, dirExists, files, sourceImg, idx,
                   outputs, err, call, ret,
                   table>>

\* the loop body ending at the regular variant's save
SaveRegularOnly ==
    /\ pc = "regular"
    /\ Saved(iconSizes[idx].Name, iconSizes[idx].Size, "regular",
             Processed(resized, config, iconSizes[idx]))
    /\ pc' = "resize"
    /\ idx' = idx + 1
    /\ UNCHANGED <<build, config, inputFile, dirExists, sourceImg, resized,
                   err, call, ret,
                   table>>

\* lines 172-186: the regular variant is padded and saved
SaveRegular ==
    /\ pc = "regular"
    /\ Saved(iconSizes[idx].Name, iconSizes[idx].Size, "regular",
             Processed(resized, config, iconSizes[idx]))
    /\ IF config.RadiusPercent > 0
       THEN pc' = "rounded" /\ idx' = idx
       ELSE pc' = "resize" /\ idx' = idx + 1
    /\ UNCHANGED <<build, config, inputFile, dirExists, sourceImg, resized,
                   err, call, ret,
                   table>>

\* lines 189-210: the rounded variant is masked, padded and saved
SaveRounded ==
    /\ pc = "rounded"
    /\ Saved(roundedName(iconSizes[idx]), iconSizes[idx].Size, "rounded",
             ProcessedRounded(resized, config, iconSizes[idx]))
    /\ pc' = "resize"
    /\ idx' = idx + 1
    /\ UNCHANGED <<build, config, inputFile, dirExists, sourceImg, resized,
                   err, call, ret,
                   table>>

\* a failed save that is reported and skipped: the loop goes on
SaveFailSkipped ==
    /\ pc \in {"regular", "rounded"}
    /\ err' = "failed to save"
    /\ IF pc = "regular" /\ config.RadiusPercent > 0
       THEN pc' = "rounded" /\ idx' = idx
       ELSE pc' = "resize" /\ idx' = idx + 1
    /\ UNCHANGED <<build, config, inputFile, dirExists, files, sourceImg,
                   resized, outputs, call, ret,
                   table>>

\* saveImage fails, lines 184-186 and 207-209: os.Create failed and the
\* directory is as it was, or png.Encode failed on the file os.Create made.
SaveFail ==
    /\ pc \in {"regular", "rounded"}
    /\ LET name == IF pc = "regular" THEN iconSizes[idx].Name
                   ELSE roundedName(iconSizes[idx])
       IN  /\ \/ files' = files
              \/ files' = WithFile(files, name, [k |-> "partial"])
           /\ err' = "failed to save " \o name
    /\ pc' = "exit1"
    /\ UNCHANGED <<build, config, inputFile, dirExists, sourceImg, idx,
                   resized, outputs, call, ret,
                   table>>

\* line 213 and main, lines 54-59: the loop is over, generateIcons returns nil
Finish ==
    /\ pc = "resize"
    /\ idx > Len(iconSizes)
    /\ pc' = "exit0"
    /\ UNCHANGED <<build, config, inputFile, dirExists, files, sourceImg, idx,
                   resized, outputs, err, call, ret,
                   table>>

(***************************************************************************)
(* The runs that are checked: command lines, input files and output        *)
(* directories.                                                            *)
(***************************************************************************)
TrimPercents == {0, 1, 75, 101}
RadiusPercents == {0 - 1, 0, 1, 25, 50, 51}
PaddingPercents == {0 - 1, 0, 3, 15, 51}

Configs ==
    {c \in [CropEnabled : BOOLEAN, TrimPercent : TrimPercents,
            RadiusPercent : RadiusPercents, PaddingPercent : PaddingPercents,
            PaddingIOSMode : BOOLEAN, Clean : BOOLEAN] :
        \* without padding the iOS mode changes nothing, and without
        \* cropping the trim percent is only validated
        /\ c.PaddingIOSMode => c.PaddingPercent = 15
        /\ ~c.CropEnabled => c.TrimPercent # 1}

InputFile(kind, w, h, pat) == [kind |-> kind, w |-> w, h |-> h, pat |-> pat]

InputFiles ==
    { InputFile("missing", 0, 0, "clear"),
      InputFile("garbage", 0, 0, "clear"),
      InputFile("png", 1, 1, "solid"),
      InputFile("png", 49, 49, "solid"),
      InputFile("png", 300, 200, "coord") }

\* The output directory before the run: absent, or holding files of an
\* earlier run and a file of another kind.
StaleFiles ==
    [n \in {"icon_old.png", "notes.txt"} |-> [k |-> "stale"]]

Init ==
    /\ build \in Builds
    /\ pc = "main"
    /\ config \in Configs
    /\ inputFile \in InputFiles
    /\ \/ dirExists = FALSE /\ files = NoFiles
       \/ dirExists = TRUE /\ files = StaleFiles
    /\ sourceImg = NoImage
    /\ idx = 0
    /\ resized = NoImage
    /\ outputs = <<>>
    /\ err = ""
    /\ call = <<>>
    /\ ret = <<>>
    /\ table = iconSizes

Next ==
    \/ Validate
    \/ MkdirAll
    \/ MkdirAllFail
    \/ Clean
    \/ LoadImage
    \/ LoadImageFail
    \/ Crop
    \/ Resize
    \/ SaveRegular
    \/ SaveRounded
    \/ SaveFail
    \/ Finish

Spec == Init /\ [][Next]_vars
(***************************************************************************)
(* The functions called on their own, as the README's unit tests call      *)
(* them: the arguments are in call, the result comes back in ret.          *)
(***************************************************************************)
\* no program run is under way
NoRun ==
    /\ build \in Builds
    /\ config = NoImage
    /\ inputFile = NoImage
    /\ dirExists = FALSE
    /\ files = NoFiles
    /\ sourceImg = NoImage
    /\ idx = 0
    /\ resized = NoImage
    /\ outputs = <<>>
    /\ err = ""
    /\ ret = <<>>
    /\ table = iconSizes
    /\ pc = "call"

Return(value) ==
    /\ pc = "call"
    /\ ret' = value
    /\ pc' = "return"
    /\ UNCHANGED <<build, config, inputFile, dirExists, files, sourceImg, idx,
                   resized, outputs, err, call, table>>

\* validateConfig on configs around the limits, for a present and an absent
\* input file
MaxPercent == 102
EdgePercents == {0 - 1, 0, 1, 25, 50, 51}

InitValidate ==
    /\ NoRun
    /\ call \in [cfg : [CropEnabled : {TRUE}, TrimPercent : (0 - 1)..MaxPercent,
                        RadiusPercent : EdgePercents,
                        PaddingPercent : EdgePercents,
                        PaddingIOSMode : {FALSE}, Clean : {FALSE}],
                 input : {InputFile("missing", 0, 0, "clear"),
                          InputFile("png", 49, 49, "solid")}]

CallValidate == Return(validateConfig(call.cfg, call.input))

SpecValidate == InitValidate /\ [][CallValidate]_vars

\* cropCenter on every image of up to MaxCropSide pixels a side
MaxCropSide == 5
CropPercents == {1, 20, 34, 50, 75, 99, 100}

InitCrop ==
    /\ NoRun
    /\ call \in [img : {SourceImage(w, h, "coord") :
                            w \in 1..MaxCropSide, h \in 1..MaxCropSide},
                 percent : CropPercents]

CallCrop == Return(cropCenter(call.img, call.percent))

SpecCrop == InitCrop /\ [][CallCrop]_vars

\* resizeImage on square and oblong sources, grown and shrunk
ResizeSources ==
    { SourceImage(1, 1, "solid"), SourceImage(2, 2, "coord"),
      SourceImage(3, 3, "solid"), SourceImage(7, 7, "solid"),
      SourceImage(49, 49, "solid"), SourceImage(3, 2, "coord"),
      SourceImage(2, 5, "solid"), SourceImage(300, 200, "coord"),
      SourceImage(1, 5, "solid"), SourceImage(40, 1, "coord"),
      SourceImage(16, 16, "coord") }
ResizeTargets == {1, 2, 3, 7, 16, 32}

InitResize ==
    /\ NoRun
    /\ call \in [img : ResizeSources, size : ResizeTargets]

CallResize == Return(resizeImage(call.img, call.size))

SpecResize == InitResize /\ [][CallResize]_vars
\* addRoundedCorners on every square image of up to MaxRoundSide pixels a
\* side, with every radius from 0 to the side
MaxRoundSide == 12

InitRound ==
    /\ NoRun
    /\ call \in {c \in [img : {SourceImage(n, n, pat) :
                                  n \in 1..MaxRoundSide, pat \in {"solid", "coord"}},
                         radius : 0..MaxRoundSide] : c.radius <= c.img.w}

CallRound == Return(addRoundedCorners(call.img, call.radius))

SpecRound == InitRound /\ [][CallRound]_vars

\* addPadding on square images of the sizes of the table, padded back to
\* their own size as generateIcons does, and on small images of any shape
PadSources ==
    {SourceImage(iconSizes[i].Size, iconSizes[i].Size, "solid") :
         i \in 1..Len(iconSizes)}
        \cup {SourceImage(3, 2, "coord"), SourceImage(5, 5, "coord")}
PadPercents == {0 - 3, 0, 1, 6, 7, 15, 50}

InitPad ==
    /\ NoRun
    /\ call \in {c \in [img : PadSources, paddingPercent : PadPercents,
                         targetSize : {5, 16} \cup {i.w : i \in PadSources}] :
                    c.targetSize \in {5, 16, c.img.w}}

CallPad == Return(addPadding(call.img, call.paddingPercent, call.targetSize))

SpecPad == InitPad /\ [][CallPad]_vars

\* shouldKeepPixel at every pixel of every square of up to MaxKeepSize
\* pixels a side, with every radius from 0 to the side, and on the cases of
\* TestShouldKeepPixel
MaxKeepSize == 12

KeepCall(x, y, size, radius) == [x |-> x, y |-> y, size |-> size, radius |-> radius]

KeepTests ==
    {KeepCall(0, 0, 100, 0), KeepCall(15, 15, 100, 20), KeepCall(5, 5, 100, 20),
     KeepCall(85, 15, 100, 20), KeepCall(5, 95, 100, 20)}

InitKeep ==
    /\ NoRun
    /\ call \in KeepTests \cup
                {c \in [x : 0..(MaxKeepSize - 1), y : 0..(MaxKeepSize - 1),
                        size : 1..MaxKeepSize, radius : 0..MaxKeepSize] :
                    c.x < c.size /\ c.y < c.size /\ c.radius <= c.size}

CallKeep == Return(shouldKeepPixel(call.x, call.y, call.size, call.radius))

SpecKeep == InitKeep /\ [][CallKeep]_vars

(***************************************************************************)
(* TestConcurrentGeneration: NumWorkers goroutines call generateIcons on   *)
(* the same input file, each with an output directory of its own, and send *)
(* what it returns on the channel done.  Here pc, config, dirExists,       *)
(* files, sourceImg, idx, resized, outputs and err are functions of the    *)
(* worker: its position, its Config, its directory and its locals; build,  *)
(* inputFile and table are shared, and ret is the channel done.  The       *)
(* directories are fresh temporary directories in which every MkdirAll and *)
(* every save succeeds; the input file lies in none of them.               *)
(***************************************************************************)
NumWorkers == 2
Workers == 1..NumWorkers

\* the test's Config, and one that cleans and pads and makes no rounded
\* variants
WorkerConfigs ==
    { [CropEnabled |-> TRUE, TrimPercent |-> 80, RadiusPercent |-> 20,
       PaddingPercent |-> 0, PaddingIOSMode |-> FALSE, Clean |-> FALSE],
      [CropEnabled |-> FALSE, TrimPercent |-> 100, RadiusPercent |-> 0,
       PaddingPercent |-> 15, PaddingIOSMode |-> TRUE, Clean |-> TRUE] }

InitConcurrent ==
    /\ build \in Builds
    /\ inputFile \in {InputFile("png", 200, 200, "solid"),
                      InputFile("garbage", 0, 0, "clear")}
    /\ table = iconSizes
    /\ config \in [Workers -> WorkerConfigs]
    /\ pc = [w \in Workers |-> "mkdir"]
    /\ dirExists = [w \in Workers |-> FALSE]
    /\ files = [w \in Workers |-> NoFiles]
    /\ sourceImg = [w \in Workers |-> NoImage]
    /\ idx = [w \in Workers |-> 0]
    /\ resized = [w \in Workers |-> NoImage]
    /\ outputs = [w \in Workers |-> <<>>]
    /\ err = [w \in Workers |-> ""]
    /\ call = <<>>
    /\ ret = <<>>

\* generateIcons, line 136
WorkerMkdirAll(w) ==
    /\ pc[w] = "mkdir"
    /\ dirExists' = [dirExists EXCEPT ![w] = TRUE]
    /\ pc' = [pc EXCEPT ![w] = "clean"]
    /\ UNCHANGED <<build, config, inputFile, files, sourceImg, idx, resized,
                   outputs, err, call, ret, table>>

\* lines 141-148, on the worker's own directory
WorkerClean(w) ==
    /\ pc[w] = "clean"
    /\ IF config[w].Clean
       THEN \E kept \in SUBSET {n \in DOMAIN files[w] : MatchesIconGlob(n)} :
                files' = [files EXCEPT ![w] =
                             [n \in {m \in DOMAIN files[w] :
                                        ~MatchesIconGlob(m) \/ m \in kept}
                                 |-> files[w][n]]]
       ELSE files' = files
    /\ pc' = [pc EXCEPT ![w] = "load"]
    /\ UNCHANGED <<build, config, inputFile, dirExists, sourceImg, idx, resized,
                   outputs, err, call, ret, table>>

\* lines 151-154: every worker opens and decodes the shared input file
WorkerLoadImage(w) ==
    /\ pc[w] = "load"
    /\ inputFile.kind = "png"
    /\ sourceImg' = [sourceImg EXCEPT ![w] =
                        SourceImage(inputFile.w, inputFile.h, inputFile.pat)]
    /\ pc' = [pc EXCEPT ![w] = "crop"]
    /\ UNCHANGED <<build, config, inputFile, dirExists, files, idx, resized,
                   outputs, err, call, ret, table>>

\* lines 151-154 failing: generateIcons returns the error, the worker sends
\* it on done
WorkerLoadImageFail(w) ==
    /\ pc[w] = "load"
    /\ inputFile.kind # "png"
    /\ err' = [err EXCEPT ![w] = "failed to load source image"]
    /\ ret' = Append(ret, "failed to load source image")
    /\ pc' = [pc EXCEPT ![w] = "exit1"]
    /\ UNCHANGED <<build, config, inputFile, dirExists, files, sourceImg, idx,
                   resized, outputs, call, table>>

\* lines 157-163
WorkerCrop(w) ==
    /\ pc[w] = "crop"
    /\ sourceImg' = [sourceImg EXCEPT ![w] =
                        IF config[w].CropEnabled
                        THEN cropCenter(sourceImg[w], config[w].TrimPercent)
                        ELSE sourceImg[w]]
    /\ idx' = [idx EXCEPT ![w] = 1]
    /\ pc' = [pc EXCEPT ![w] = "resize"]
    /\ UNCHANGED <<build, config, inputFile, dirExists, files, resized,
                   outputs, err, call, ret, table>>

\* lines 166-170: the loop ranges over the shared iconSizes
WorkerResize(w) ==
    /\ pc[w] = "resize"
    /\ idx[w] <= Len(table)
    /\ resized' = [resized EXCEPT ![w] =
                      resizeImage(sourceImg[w], table[idx[w]].Size)]
    /\ pc' = [pc EXCEPT ![w] = "regular"]
    /\ UNCHANGED <<build, config, inputFile, dirExists, files, sourceImg, idx,
                   outputs, err, call, ret, table>>

\* saveImage returned nil in the directory of worker dir
WorkerSaved(w, dir, name, size, variant, img) ==
    /\ files' = [files EXCEPT ![dir] =
                    WithFile(files[dir], name, [k |-> "png", img |-> img])]
    /\ outputs' = [outputs EXCEPT ![w] =
                      Append(outputs[w], [Name |-> name, Size |-> size,
                                          variant |-> variant, img |-> img])]

\* the regular variant saved in the directory of the first worker
WorkerSaveRegularShared(w) ==
    /\ pc[w] = "regular"
    /\ WorkerSaved(w, 1, table[idx[w]].Name, table[idx[w]].Size, "regular",
                   Processed(resized[w], config[w], table[idx[w]]))
    /\ IF config[w].RadiusPercent > 0
       THEN pc' = [pc EXCEPT ![w] = "rounded"] /\ idx' = idx
       ELSE pc' = [pc EXCEPT ![w] = "resize"]
            /\ idx' = [idx EXCEPT ![w] = idx[w] + 1]
    /\ UNCHANGED <<build, config, inputFile, dirExists, sourceImg, resized,
                   err, call, ret, table>>

\* lines 172-186
WorkerSaveRegular(w) ==
    /\ pc[w] = "regular"
    /\ WorkerSaved(w, w, table[idx[w]].Name, table[idx[w]].Size, "regular",
                   Processed(resized[w], config[w], table[idx[w]]))
    /\ IF config[w].RadiusPercent > 0
       THEN pc' = [pc EXCEPT ![w] = "rounded"] /\ idx' = idx
       ELSE pc' = [pc EXCEPT ![w] = "resize"]
            /\ idx' = [idx EXCEPT ![w] = idx[w] + 1]
    /\ UNCHANGED <<build, config, inputFile, dirExists, sourceImg, resized,
                   err, call, ret, table>>

\* lines 189-210
WorkerSaveRounded(w) ==
    /\ pc[w] = "rounded"
    /\ WorkerSaved(w, w, roundedName(table[idx[w]]), table[idx[w]].Size,
                   "rounded",
                   ProcessedRounded(resized[w], config[w], table[idx[w]]))
    /\ pc' = [pc EXCEPT ![w] = "resize"]
    /\ idx' = [idx EXCEPT ![w] = idx[w] + 1]
    /\ UNCHANGED <<build, config, inputFile, dirExists, sourceImg, resized,
                   err, call, ret, table>>

\* line 213: generateIcons returns nil and the worker sends it on done, a
\* channel with room for every worker's result
WorkerFinish(w) ==
    /\ pc[w] = "resize"
    /\ idx[w] > Len(table)
    /\ ret' = Append(ret, "")
    /\ pc' = [pc EXCEPT ![w] = "exit0"]
    /\ UNCHANGED <<build, config, inputFile, dirExists, files, sourceImg, idx,
                   resized, outputs, err, call, table>>

WorkerStep(w) ==
    \/ WorkerMkdirAll(w)
    \/ WorkerClean(w)
    \/ WorkerLoadImage(w)
    \/ WorkerLoadImageFail(w)
    \/ WorkerCrop(w)
    \/ WorkerResize(w)
    \/ WorkerSaveRegular(w)
    \/ WorkerSaveRounded(w)
    \/ WorkerFinish(w)

NextConcurrent == \E w \in Workers : WorkerStep(w)

\* A step of worker w, told by its position alone: every action of a worker
\* moves its pc and no other worker's, and at every position but exit0 and
\* exit1 one of its actions is enabled (each position has an action for
\* either outcome of its test).  Fairness is stated on this formula, whose
\* ENABLED needs no image to be computed.
Positions ==
    {"mkdir", "clean", "load", "crop", "resize", "regular", "rounded",
     "exit0", "exit1"}

WorkerAdvances(w) ==
    /\ pc[w] \notin {"exit0", "exit1"}
    /\ pc' \in {[pc EXCEPT ![w] = p] : p \in Positions \ {pc[w]}}

\* the Go scheduler lets every goroutine that can run take its next step
SpecConcurrent ==
    /\ InitConcurrent
    /\ [][NextConcurrent]_vars
    /\ \A w \in Workers : WF_pc(WorkerAdvances(w))

(***************************************************************************)
(* The claims.                                                             *)
(***************************************************************************)
Last(seq) == seq[Len(seq)]

\* the k-th output of a run with rounded variants is of spec (k + 1) \div 2
SpecOfOutput(k) ==
    IF config.RadiusPercent > 0 THEN iconSizes[(k + 1) \div 2] ELSE iconSizes[k]

VariantOfOutput(k) ==
    IF config.RadiusPercent > 0 /\ k % 2 = 0 THEN "rounded" ELSE "regular"

\* C1: the outputs of a run come in the order of the spec table, each spec's
\* regular variant before its rounded variant; a run that ends without error
\* has emitted 2 * 11 outputs when radiusPercent > 0 and the 11 regular
\* outputs, none of them rounded, when radiusPercent = 0.
C1_OutputOrder ==
    /\ \A k \in 1..Len(outputs) :
          /\ outputs[k].variant = VariantOfOutput(k)
          /\ outputs[k].Size = SpecOfOutput(k).Size
          /\ outputs[k].variant = "regular" => outputs[k].Name = SpecOfOutput(k).Name
          /\ outputs[k].variant = "rounded" => outputs[k].Name # SpecOfOutput(k).Name
    /\ pc = "exit0" =>
          Len(outputs) = IF config.RadiusPercent > 0 THEN 2 * Len(iconSizes)
                         ELSE Len(iconSizes)

C1_Witness ==
    /\ pc = "exit0"
    /\ config.RadiusPercent > 0
    /\ Len(outputs) = 2 * Len(iconSizes)
    /\ Last(outputs).Name = "icon_1024x1024_rounded.png"

\* C2: every output a run emits, regular or rounded, padded or not, is a
\* square buffer as wide and as high as the size of its spec.
C2_OutputsSquare ==
    \A k \in 1..Len(outputs) :
        /\ outputs[k].img.w = SpecOfOutput(k).Size
        /\ outputs[k].img.h = SpecOfOutput(k).Size

C2_Witness ==
    /\ outputs # <<>>
    /\ Last(outputs).variant = "rounded"
    /\ config.PaddingPercent > 0
    /\ Last(outputs).img.src.k = "canvas"
    /\ Last(outputs).img.src.w > Last(outputs).Size
    /\ sourceImg.w # sourceImg.h

\* C3: for every source of at least 1 x 1 pixels, square or not, and every
\* targetSize >= 1, resizeImage returns a targetSize x targetSize buffer.
C3_ResizeSize ==
    pc = "return" => ret.w = call.size /\ ret.h = call.size

C3_Witness ==
    /\ pc = "return"
    /\ call.img.w # call.img.h
    /\ call.size = 7
    /\ ret.newHeight < ret.h

\* C4: for every square source and every targetSize >= 1 the content of
\* resizeImage's output is the whole buffer and every pixel of it is
\* written, so an opaque source gives an opaque output.
C4_SquareFills ==
    (pc = "return" /\ call.img.w = call.img.h) =>
        /\ ret.newWidth = call.size /\ ret.newHeight = call.size
        /\ ret.offsetX = 0 /\ ret.offsetY = 0
        /\ \A x, y \in 0..(call.size - 1) :
              /\ Written(ret, x, y)
              /\ call.img.pat = "solid" => At(ret, x, y)[4] = 255

\* C5: cropCenter returns floor(W * percent / 100) x floor(H * percent / 100)
\* pixels, pixel (i, j) being source pixel (offX + i, offY + j) with offX =
\* (W - cropW) / 2 and offY = (H - cropH) / 2; at percent = 100 the result
\* has the size and the pixels of the input.
C5_CropCentred ==
    pc = "return" =>
        LET W == call.img.w
            H == call.img.h
            cropW == (W * call.percent) \div 100
            cropH == (H * call.percent) \div 100
        IN  /\ ret.w = cropW /\ ret.h = cropH
            /\ \A i \in 0..(cropW - 1), j \in 0..(cropH - 1) :
                  At(ret, i, j) = PatternPixel(call.img.pat, (W - cropW) \div 2 + i,
                                               (H - cropH) \div 2 + j)
            /\ call.percent = 100 =>
                  /\ ret.w = W /\ ret.h = H
                  /\ \A i \in 0..(W - 1), j \in 0..(H - 1) :
                        At(ret, i, j) = PatternPixel(call.img.pat, i, j)

C5_Witness ==
    /\ pc = "return"
    /\ call.percent = 50
    /\ call.img.w = 5 /\ call.img.h = 4
    /\ ret.w = 2 /\ ret.h = 2
    /\ At(ret, 0, 0) = PatternPixel("coord", 1, 1)

PercentsInRange(cfg) ==
    /\ cfg.TrimPercent \in 1..100
    /\ cfg.RadiusPercent \in 0..50
    /\ cfg.PaddingPercent \in 0..50

\* C6: validateConfig returns an error whenever trimPercent is outside
\* 1..100, radiusPercent outside 0..50 or paddingPercent outside 0..50, and
\* nil, for an input that exists, whenever all three are in range, the limits
\* 1, 100, 0 and 50 included.
C6_ValidateRanges ==
    pc = "return" =>
        /\ ~PercentsInRange(call.cfg) => ret # ""
        /\ (PercentsInRange(call.cfg) /\ call.input.kind # "missing") => ret = ""

C6_Witness ==
    /\ pc = "return"
    /\ call.input.kind = "png"
    /\ call.cfg.TrimPercent = 100
    /\ call.cfg.RadiusPercent = 50
    /\ call.cfg.PaddingPercent = 50
    /\ ret = ""

\* C7 as claimed: validateConfig's verdict depends on the three percents
\* alone, not on the input file existing.
C7_VerdictFromPercentsAlone ==
    pc = "return" => (ret = "" <=> PercentsInRange(call.cfg))

\* C7 as amended: validateConfig first looks for the input file and rejects
\* every config whose input does not exist with "input image not found",
\* whatever its percents; for an input that exists the verdict depends on
\* the three percents alone.
C7_VerdictNeedsInput ==
    pc = "return" =>
        /\ call.input.kind = "missing" => ret = "input image not found"
        /\ call.input.kind # "missing" => (ret = "" <=> PercentsInRange(call.cfg))

C7_Witness ==
    /\ pc = "return"
    /\ call.input.kind = "missing"
    /\ PercentsInRange(call.cfg)
    /\ ret = "input image not found"

ConfigInvalid == ~PercentsInRange(config) \/ inputFile.kind = "missing"

\* C8: a run whose config is invalid (a percent out of range, or the input
\* missing) takes one step only, from main to exit status 1 with an error:
\* the output directory is not created, no file is removed or written, the
\* source is not decoded and no transform runs.
C8_ValidationFirst ==
    [][ConfigInvalid =>
          /\ pc = "main" /\ pc' = "exit1" /\ err' # ""
          /\ UNCHANGED <<dirExists, files, sourceImg, resized, outputs>>]_vars

C8_Witness ==
    /\ pc = "exit1"
    /\ ~PercentsInRange(config)
    /\ inputFile.kind = "png"
    /\ err # ""
    /\ ~dirExists
    /\ outputs = <<>>

\* C9: when a save fails the run ends at once with an error: no further
\* output is produced or written, the failed save is not tried again, and
\* every output saved before is still in the directory as it was written.
C9_FailFast ==
    [][/\ pc \notin {"exit0", "exit1"}
       /\ (pc \in {"regular", "rounded"} /\ err' # "") =>
             /\ pc' = "exit1"
             /\ outputs' = outputs
             /\ \A k \in 1..Len(outputs) :
                   /\ outputs[k].Name \in DOMAIN files'
                   /\ files'[outputs[k].Name].k = "png"
                   /\ files'[outputs[k].Name].img = outputs[k].img]_vars

C9_Witness ==
    /\ pc = "exit1"
    /\ Len(outputs) = 3
    /\ "icon_16x16@2x_rounded.png" \in DOMAIN files
    /\ files["icon_16x16@2x_rounded.png"].k = "partial"
    /\ files["icon_16x16.png"].k = "png"
    /\ "icon_32x32.png" \notin DOMAIN files

\* a rounded variant has just been saved
RoundedSaved ==
    /\ pc = "resize"
    /\ outputs # <<>>
    /\ Last(outputs).variant = "rounded"

\* C10 as claimed: for every radiusPercent > 0 and every spec of size >= 32,
\* pixel (0, 0) of the rounded variant has alpha 0.
C10_CornerTransparent ==
    (RoundedSaved /\ Last(outputs).Size >= 32) =>
        At(Last(outputs).img, 0, 0)[4] = 0

\* C10 as amended: for every radiusPercent > 0 and every spec of size >= 32
\* whose radius size * radiusPercent / 100 is at least 1, pixel (0, 0) of
\* the rounded variant has alpha 0, whatever the source and the padding.
C10_CornerTransparentFromRadius1 ==
    (/\ RoundedSaved
     /\ Last(outputs).Size >= 32
     /\ (Last(outputs).Size * config.RadiusPercent) \div 100 >= 1) =>
        At(Last(outputs).img, 0, 0)[4] = 0

C10_Witness ==
    /\ RoundedSaved
    /\ Last(outputs).Size = 32
    /\ config.RadiusPercent = 25
    /\ config.PaddingPercent = 3
    /\ inputFile.pat = "solid"
    /\ At(Last(outputs).img, 0, 0)[4] = 0
    /\ At(Last(outputs).img, 16, 16)[4] = 255

\* what the run emits as its k-th output when paddingPercent is 0 and the
\* rest of the config is the same
UnpaddedOutput(k) ==
    LET cfg0 == [config EXCEPT !.PaddingPercent = 0]
        base == resizeImage(sourceImg, SpecOfOutput(k).Size)
    IN  IF VariantOfOutput(k) = "regular"
        THEN Processed(base, cfg0, SpecOfOutput(k))
        ELSE ProcessedRounded(base, cfg0, SpecOfOutput(k))

\* C11: in a run with paddingPercent > 0 and the iOS padding mode set, the
\* regular and the rounded output of icon_1024x1024.png are the buffers the
\* same run emits with paddingPercent = 0, and padding is skipped for that
\* spec only: every output of the other ten specs is the resize of a padded
\* canvas.
C11_LargestUnpadded ==
    (config.PaddingPercent > 0 /\ config.PaddingIOSMode) =>
        \A k \in 1..Len(outputs) :
            IF SpecOfOutput(k).Name = "icon_1024x1024.png"
            THEN /\ outputs[k].img = UnpaddedOutput(k)
                 /\ outputs[k].img.src.k # "canvas"
            ELSE /\ outputs[k].img.k = "resize"
                 /\ outputs[k].img.src.k = "canvas"
                 /\ outputs[k].img.src.offsetX =
                        (outputs[k].Size * config.PaddingPercent) \div 100

C11_Witness ==
    /\ pc = "exit0"
    /\ config.PaddingIOSMode
    /\ config.PaddingPercent = 15
    /\ config.RadiusPercent = 25
    /\ Len(outputs) = 22
    /\ outputs[20].Name = "icon_512x512@2x_rounded.png"
    /\ outputs[20].img.src.k = "canvas"
    /\ outputs[21].img.k = "resize"
    /\ outputs[21].img.src = sourceImg
    /\ outputs[22].img.k = "round"
    /\ outputs[22].img.radius = 256

\* the entry the iOS padding mode exempts
ExemptEntry ==
    iconSizes[CHOOSE i \in 1..Len(iconSizes) :
                  iconSizes[i].Name = "icon_1024x1024.png"]

\* C12 as claimed: the exempted entry is the single largest of the table:
\* every output of another entry is strictly smaller than the exempted
\* entry, so every output that is still padded is smaller than it.
C12_ExemptSingleLargest ==
    (config.PaddingPercent > 0 /\ config.PaddingIOSMode) =>
        \A k \in 1..Len(outputs) :
            /\ SpecOfOutput(k) # ExemptEntry => outputs[k].Size < ExemptEntry.Size
            /\ outputs[k].img.src.k = "canvas" => outputs[k].Size < ExemptEntry.Size

\* C12 as amended: the exempted entry icon_1024x1024.png has the largest
\* size of the table, 1024, but shares it with icon_512x512@2x.png, which
\* is still padded; every other entry is strictly smaller, so every output
\* that is still padded is at most as large as the exempted one.
C12_ExemptLargestShared ==
    (config.PaddingPercent > 0 /\ config.PaddingIOSMode) =>
        \A k \in 1..Len(outputs) :
            /\ outputs[k].Size <= ExemptEntry.Size
            /\ outputs[k].img.src.k = "canvas" => SpecOfOutput(k) # ExemptEntry
            /\ (SpecOfOutput(k) # ExemptEntry
                    /\ outputs[k].Size = ExemptEntry.Size) =>
                   SpecOfOutput(k).Name = "icon_512x512@2x.png"
            /\ SpecOfOutput(k).Name = "icon_512x512@2x.png" =>
                   /\ outputs[k].Size = ExemptEntry.Size
                   /\ outputs[k].img.src.k = "canvas"

C12_Witness ==
    /\ pc = "exit0"
    /\ config.PaddingIOSMode
    /\ config.PaddingPercent = 15
    /\ config.RadiusPercent = 0
    /\ Len(outputs) = 11
    /\ outputs[10].Name = "icon_512x512@2x.png"
    /\ outputs[10].Size = 1024
    /\ outputs[10].img.src.k = "canvas"
    /\ outputs[10].img.src.w = 1024 + 2 * 153
    /\ outputs[11].Size = 1024
    /\ outputs[11].img.src.k = "src"

\* C13: with radius 0 shouldKeepPixel is true at every pixel of the image,
\* whatever its size, and addRoundedCorners returns a buffer of the size and
\* with the pixels of the image.
C13_RadiusZeroIdentity ==
    (pc = "return" /\ call.radius = 0) =>
        /\ ret.w = call.img.w /\ ret.h = call.img.h
        /\ \A x, y \in 0..(call.img.w - 1) :
              /\ shouldKeepPixel(x, y, call.img.w, 0)
              /\ At(ret, x, y) = At(call.img, x, y)

C13_Witness ==
    /\ pc = "return"
    /\ call.radius = 0
    /\ call.img.w = MaxRoundSide
    /\ call.img.pat = "coord"
    /\ At(ret, 0, 0) = PatternPixel("coord", 0, 0)
    /\ At(ret, 0, 0)[4] = 255

\* C14: for radius > 0 and a square image of size >= 2 * radius,
\* addRoundedCorners returns a buffer of the image's size whose pixel (0, 0)
\* has all four channels 0 and whose pixel (size / 2, size / 2) is the
\* source's pixel there.
C14_CornerAndCentre ==
    (pc = "return" /\ call.radius > 0 /\ call.img.w >= 2 * call.radius) =>
        /\ ret.w = call.img.w /\ ret.h = call.img.h
        /\ At(ret, 0, 0) = Transparent
        /\ At(ret, call.img.w \div 2, call.img.w \div 2) =
              PatternPixel(call.img.pat, call.img.w \div 2, call.img.w \div 2)

C14_Witness ==
    /\ pc = "return"
    /\ call.radius = 6
    /\ call.img.w = 2 * call.radius
    /\ call.img.pat = "coord"
    /\ At(ret, 0, 0) = Transparent
    /\ At(ret, 6, 6) = PatternPixel("coord", 6, 6)

\* C15: with paddingPercent <= 0 addPadding returns the buffer it was
\* given, not resized, whatever the target size, so that applying it again
\* changes nothing.
C15_NoPaddingNoOp ==
    (pc = "return" /\ call.paddingPercent <= 0) =>
        /\ ret = call.img
        /\ addPadding(ret, call.paddingPercent, call.targetSize) = ret

C15_Witness ==
    /\ pc = "return"
    /\ call.paddingPercent = 0
    /\ call.img.w = 3 /\ call.img.h = 2
    /\ call.targetSize = 16
    /\ ret.k = "src"
    /\ ret.w = 3 /\ ret.h = 2

\* addPadding was called as generateIcons calls it: with a positive percent
\* within the validated range, on a square buffer of a size of the table,
\* to be padded back to that size
PadOfTableSize ==
    /\ pc = "return"
    /\ call.paddingPercent \in 1..50
    /\ call.img.w = call.img.h
    /\ call.targetSize = call.img.w
    /\ \E i \in 1..Len(iconSizes) : iconSizes[i].Size = call.img.w

FirstRowAndColumnTransparent(img) ==
    \A c \in 0..(img.w - 1) :
        At(img, c, 0) = Transparent /\ At(img, 0, c) = Transparent

\* C16 as claimed: for every paddingPercent in 1..50 and every square image
\* of a size of the table, addPadding returns a size x size buffer whose
\* first row and first column, pixel (0, 0) included, are fully transparent
\* whatever the image's content.
C16_MarginTransparent ==
    PadOfTableSize =>
        /\ ret.w = call.img.w /\ ret.h = call.img.w
        /\ FirstRowAndColumnTransparent(ret)

\* C16 as amended: the same, for the paddingPercent in 1..50 whose margin
\* size * paddingPercent / 100 is at least one pixel; when it truncates to
\* 0 the buffer is size x size without a margin.
C16_MarginTransparentFromOnePixel ==
    PadOfTableSize =>
        /\ ret.w = call.img.w /\ ret.h = call.img.w
        /\ (call.img.w * call.paddingPercent) \div 100 >= 1 =>
               FirstRowAndColumnTransparent(ret)
        /\ (call.img.w * call.paddingPercent) \div 100 = 0 =>
               At(ret, 0, 0) = At(call.img, 0, 0)

C16_Witness ==
    /\ PadOfTableSize
    /\ call.img.w = 16
    /\ call.paddingPercent = 7
    /\ ret.src.k = "canvas"
    /\ ret.src.w = 16 + 2
    /\ At(ret, 0, 0) = Transparent
    /\ At(ret, 15, 0) = Transparent
    /\ At(ret, 8, 8)[4] = 255

\* the names of README.md's "Generated Files", in the order of the table
RegularNames ==
    <<"icon_16x16.png", "icon_16x16@2x.png", "icon_32x32.png",
      "icon_32x32@2x.png", "icon_128x128.png", "icon_128x128@2x.png",
      "icon_256x256.png", "icon_256x256@2x.png", "icon_512x512.png",
      "icon_512x512@2x.png", "icon_1024x1024.png">>
RoundedNames ==
    <<"icon_16x16_rounded.png", "icon_16x16@2x_rounded.png",
      "icon_32x32_rounded.png", "icon_32x32@2x_rounded.png",
      "icon_128x128_rounded.png", "icon_128x128@2x_rounded.png",
      "icon_256x256_rounded.png", "icon_256x256@2x_rounded.png",
      "icon_512x512_rounded.png", "icon_512x512@2x_rounded.png",
      "icon_1024x1024_rounded.png">>

\* the position in the table of the spec of the k-th output
IndexOfOutput(k) == IF config.RadiusPercent > 0 THEN (k + 1) \div 2 ELSE k

\* C17: the regular variant of a spec is saved under the spec's name and
\* its rounded variant under that name with the trailing ".png" replaced by
\* "_rounded.png", and the file of that name in the output directory holds
\* the output.
C17_OutputNames ==
    \A k \in 1..Len(outputs) :
        /\ outputs[k].variant = "regular" =>
               /\ outputs[k].Name = iconSizes[IndexOfOutput(k)].Name
               /\ outputs[k].Name = RegularNames[IndexOfOutput(k)]
        /\ outputs[k].variant = "rounded" =>
               outputs[k].Name = RoundedNames[IndexOfOutput(k)]
        /\ outputs[k].Name \in DOMAIN files
        /\ files[outputs[k].Name].img = outputs[k].img

C17_Witness ==
    /\ pc = "exit0"
    /\ Len(outputs) = 22
    /\ outputs[4].variant = "rounded"
    /\ outputs[4].Name = "icon_16x16@2x_rounded.png"
    /\ outputs[3].Name = "icon_16x16@2x.png"
    /\ {"icon_16x16@2x.png", "icon_16x16@2x_rounded.png"} \subseteq DOMAIN files

\* C18: with Clean set, every file of the output directory that matches
\* icon_*.png is removed before the source is loaded and before any icon is
\* written, so that after a run without error the files of the directory
\* that match icon_*.png are exactly the run's outputs; nothing is removed
\* after the first write.
C18_CleanLeavesOnlyOutputs ==
    /\ (config.Clean /\ pc \in {"load", "crop"}) =>
           \A n \in DOMAIN files : ~MatchesIconGlob(n)
    /\ (config.Clean /\ pc = "exit0") =>
           {n \in DOMAIN files : MatchesIconGlob(n)} =
               {outputs[k].Name : k \in 1..Len(outputs)}
    /\ outputs # <<>> =>
           \A k \in 1..Len(outputs) : outputs[k].Name \in DOMAIN files

\* what generateIcons emits for a config and an input when it runs alone
AloneOutputs(cfg, input) ==
    LET loaded == SourceImage(input.w, input.h, input.pat)
        source == IF cfg.CropEnabled THEN cropCenter(loaded, cfg.TrimPercent)
                  ELSE loaded
        both == cfg.RadiusPercent > 0
        count == IF both THEN 2 * Len(iconSizes) ELSE Len(iconSizes)
    IN  [k \in 1..count |->
            LET iconSize == iconSizes[IF both THEN (k + 1) \div 2 ELSE k]
                base == resizeImage(source, iconSize.Size)
            IN  IF both /\ k % 2 = 0
                THEN [Name |-> roundedName(iconSize), Size |-> iconSize.Size,
                      variant |-> "rounded",
                      img |-> ProcessedRounded(base, cfg, iconSize)]
                ELSE [Name |-> iconSize.Name, Size |-> iconSize.Size,
                      variant |-> "regular",
                      img |-> Processed(base, cfg, iconSize)]]

AllReturned == \A w \in Workers : pc[w] \in {"exit0", "exit1"}

\* no worker has met an error, and once all have returned each has emitted,
\* and holds in its own directory, what it emits when it runs alone
WorkersUndisturbed ==
    /\ \A w \in Workers : err[w] = "" /\ pc[w] # "exit1"
    /\ \A i \in 1..Len(ret) : ret[i] = ""
    /\ table = iconSizes
    /\ AllReturned =>
          \A w \in Workers :
              /\ outputs[w] = AloneOutputs(config[w], inputFile)
              /\ DOMAIN files[w] =
                     {outputs[w][k].Name : k \in 1..Len(outputs[w])}
              /\ \A k \in 1..Len(outputs[w]) :
                     files[w][outputs[w][k].Name].img = outputs[w][k].img

\* a step changes the directory and the locals of one worker only, and
\* neither the input file nor the table
OneWorkerSteps ==
    /\ inputFile' = inputFile
    /\ table' = table
    /\ \E w \in Workers : \A v \in Workers \ {w} :
          /\ pc'[v] = pc[v] /\ files'[v] = files[v] /\ outputs'[v] = outputs[v]
          /\ sourceImg'[v] = sourceImg[v] /\ resized'[v] = resized[v]
          /\ idx'[v] = idx[v] /\ err'[v] = err[v]

Corners == {"left", "right"} \X {"top", "bottom"}

InCornerZone(corner, x, y, size, radius) ==
    /\ IF corner[1] = "left" THEN x < radius ELSE x >= size - radius
    /\ IF corner[2] = "top" THEN y < radius ELSE y >= size - radius

CircleCentre(corner, size, radius) ==
    <<IF corner[1] = "left" THEN radius ELSE size - radius,
      IF corner[2] = "top" THEN radius ELSE size - radius>>

\* C20: for radius > 0 (and at most size / 2, so that the four zones do not
\* overlap) shouldKeepPixel is true at a pixel in none of the four radius x
\* radius corner zones and, at a pixel in a zone, true exactly when dx * dx
\* + dy * dy <= radius * radius, (dx, dy) being its offset from the zone's
\* circle centre (radius, radius), (size - radius, radius), (radius, size -
\* radius) or (size - radius, size - radius); the result is a boolean.
C20_KeepIsReference ==
    (pc = "return" /\ call.radius > 0 /\ 2 * call.radius <= call.size) =>
        /\ ret \in BOOLEAN
        /\ ret = \A corner \in Corners :
                    InCornerZone(corner, call.x, call.y, call.size, call.radius) =>
                        LET centre == CircleCentre(corner, call.size, call.radius)
                            dx == call.x - centre[1]
                            dy == call.y - centre[2]
                        IN  dx * dx + dy * dy <= call.radius * call.radius

C20_Witness ==
    /\ pc = "return"
    /\ call = KeepCall(5, 95, 100, 20)
    /\ ret = FALSE

\* whether an output is the resize of a padded canvas
IsPadded(img) == img.k = "resize" /\ img.src.k = "canvas"

\* the buffer an output was padded from, the output itself when not padded
BeforePadding(img) == IF IsPadded(img) THEN img.src.src ELSE img

\* C21: the rounded variant of a spec is built in the order resize, round,
\* pad: the mask, of radius floor(size * radiusPercent / 100), is applied to
\* the resized buffer of the spec (never to the padded regular variant),
\* and the rounded buffer is padded exactly when the regular variant of the
\* spec is, by the same percent.  Stated of a rounded variant when it has
\* just been saved: resized is then still the resized buffer of its spec.
C21_RoundBeforePad ==
    (/\ pc \in {"resize", "exit0"}
     /\ outputs # <<>>
     /\ Last(outputs).variant = "rounded") =>
        LET rounded == BeforePadding(Last(outputs).img)
            regular == outputs[Len(outputs) - 1].img
        IN  /\ rounded.k = "round"
            /\ rounded.radius =
                   (Last(outputs).Size * config.RadiusPercent) \div 100
            /\ rounded.src = resized
            /\ resized.k = "resize"
            /\ resized.src = sourceImg
            /\ resized.w = Last(outputs).Size
            /\ rounded.src = BeforePadding(regular)
            /\ IsPadded(Last(outputs).img) = IsPadded(regular)
            /\ IsPadded(regular) =>
                   Last(outputs).img.src.offsetX = regular.src.offsetX

C21_Witness ==
    /\ pc = "resize"
    /\ Len(outputs) = 4
    /\ config.RadiusPercent = 25
    /\ config.PaddingPercent = 15
    /\ outputs[4].variant = "rounded"
    /\ IsPadded(outputs[4].img)
    /\ outputs[4].img.src.src.k = "round"
    /\ outputs[4].img.src.src.radius = 8
    /\ outputs[4].img.src.offsetX = 4
    /\ outputs[4].img.src.src.src.k = "resize"

\* C22: for every oblong source and every targetSize >= 1, the pixels
\* resizeImage writes lie in [offX, offX + newW) x [offY, offY + newH), with
\* offX = (targetSize - newW) / 2 and offY = (targetSize - newH) / 2; the
\* rectangle lies inside the output and every pixel of the output outside
\* it has all four channels 0.
C22_ContentCentred ==
    (pc = "return" /\ call.img.w # call.img.h) =>
        /\ ret.offsetX = (call.size - ret.newWidth) \div 2
        /\ ret.offsetY = (call.size - ret.newHeight) \div 2
        /\ ret.newWidth >= 0 /\ ret.newHeight >= 0
        /\ ret.offsetX >= 0 /\ ret.offsetX + ret.newWidth <= call.size
        /\ ret.offsetY >= 0 /\ ret.offsetY + ret.newHeight <= call.size
        /\ \A x, y \in 0..(call.size - 1) :
              IF /\ x >= ret.offsetX /\ x < ret.offsetX + ret.newWidth
                 /\ y >= ret.offsetY /\ y < ret.offsetY + ret.newHeight
              THEN TRUE
              ELSE At(ret, x, y) = Transparent /\ ~Written(ret, x, y)

C22_Witness ==
    /\ pc = "return"
    /\ call.img.w = 300 /\ call.img.h = 200
    /\ call.size = 32
    /\ ret.newWidth = 32 /\ ret.newHeight = 21
    /\ ret.offsetX = 0 /\ ret.offsetY = 5
    /\ At(ret, 0, 4) = Transparent
    /\ At(ret, 0, 5)[4] = 255
    /\ At(ret, 0, 26) = Transparent

\* whether the clamp of lines 304-311 applies at loop index x on an axis of
\* n source pixels
ClampApplies(x, scale, n) == IntOfFloat(FDiv(FFromInt(x), scale)) >= n - 1

\* C23 at one pixel of the loop: src is the source, sx and sy the base
\* coordinates and weights the loop computed, pixel what it wrote (<<>> for
\* nothing), clampX and clampY whether the clamp applied.  If the pixel is
\* written, its base source coordinate lies in [0, W-2] x [0, H-2]; where
\* the clamp applies on an axis the weight on that axis is 1 and the value
\* written is made of the source's last column (row) alone.
ClampedReads(src, sx, sy, pixel, clampX, clampY) ==
    pixel # <<>> =>
        /\ sx[1] >= 0 /\ sx[1] <= src.w - 2
        /\ sy[1] >= 0 /\ sy[1] <= src.h - 2
        /\ clampX =>
              /\ sx[1] = src.w - 2 /\ sx[2] = FOne
              /\ pixel = Interpolated(At(src, src.w - 1, sy[1]),
                                      At(src, src.w - 1, sy[1]),
                                      At(src, src.w - 1, sy[1] + 1),
                                      At(src, src.w - 1, sy[1] + 1),
                                      FZero, sy[2])
        /\ clampY =>
              /\ sy[1] = src.h - 2 /\ sy[2] = FOne
              /\ (clampX => pixel = At(src, src.w - 1, src.h - 1))
              /\ (~clampX =>
                    pixel = Interpolated(At(src, sx[1], src.h - 1),
                                         At(src, sx[1] + 1, src.h - 1),
                                         At(src, sx[1], src.h - 1),
                                         At(src, sx[1] + 1, src.h - 1),
                                         sx[2], FZero))

ClampedReadsAt(img, sx, sy, clampX, clampY) ==
    ClampedReads(img.src, sx, sy, ResizeSample(img.src, sx, sy), clampX, clampY)

\* the same along the row of loop index y
ClampedReadsInRow(img, sy, clampY) ==
    \A x \in 0..(img.newWidth - 1) :
        ClampedReadsAt(img, SrcCoord(x, img.scale, img.src.w), sy,
                       ClampApplies(x, img.scale, img.src.w), clampY)

\* C23: for every destination pixel resizeImage writes, the base source
\* coordinate is within [0, W-2] x [0, H-2], so that the four pixels read
\* are inside the source; and whenever the clamp applies on an axis the
\* weight on that axis is 1 and the written value is that of the source's
\* last column or row.
C23_ClampedReads ==
    pc = "return" =>
        \A y \in 0..(ret.newHeight - 1) :
            ClampedReadsInRow(ret, SrcCoord(y, ret.scale, call.img.h),
                              ClampApplies(y, ret.scale, call.img.h))

C23_Witness ==
    /\ pc = "return"
    /\ call.img = SourceImage(3, 2, "coord")
    /\ call.size = 7
    /\ ClampApplies(6, ret.scale, 3)
    /\ ~ClampApplies(0, ret.scale, 3)
    /\ ClampApplies(3, ret.scale, 2)
    /\ ResizePixel(ret, 6, 3) = PatternPixel("coord", 2, 1)
    /\ ResizePixel(ret, 0, 0) = PatternPixel("coord", 0, 0)

\* the source buffer of a run: the centre crop of the decoded input when
\* CropEnabled is set, the decoded input otherwise
SourceOf(cfg, input) ==
    IF cfg.CropEnabled
    THEN cropCenter(SourceImage(input.w, input.h, input.pat), cfg.TrimPercent)
    ELSE SourceImage(input.w, input.h, input.pat)

\* the output of a variant of a spec, made from the source, the config and
\* the spec alone
OutputOf(source, cfg, iconSize, variant) ==
    IF variant = "regular"
    THEN Processed(resizeImage(source, iconSize.Size), cfg, iconSize)
    ELSE ProcessedRounded(resizeImage(source, iconSize.Size), cfg, iconSize)

\* C24: from the crop step on, sourceImg is the centre crop of the decoded
\* image when CropEnabled is set and the decoded image itself otherwise
\* (TrimPercent ignored), and no step of the loop changes it; every resize
\* reads it, and every output saved is the one made from that source, the
\* config and its spec alone, whatever specs were processed before.
C24_OneSource ==
    /\ [](idx >= 1 => sourceImg = SourceOf(config, inputFile))
    /\ [][idx >= 1 => sourceImg' = sourceImg]_vars
    /\ [][resized' # resized => resized'.src = sourceImg]_vars
    /\ [][outputs' # outputs =>
             Last(outputs').img =
                 OutputOf(sourceImg, config, SpecOfOutput(Len(outputs')),
                          VariantOfOutput(Len(outputs')))]_vars

C24_Witness ==
    /\ pc = "exit0"
    /\ ~config.CropEnabled
    /\ config.TrimPercent = 75
    /\ sourceImg = SourceImage(300, 200, "coord")
    /\ Len(outputs) = 22
    /\ outputs[1].img.src = sourceImg
    /\ BeforePadding(outputs[22].img).src.src = sourceImg

\* C25: in a run whose config validation accepted, radiusPercent is in
\* 0..50 and, for every spec of the table, the radius size * radiusPercent
\* / 100 handed to addRoundedCorners satisfies 0 <= radius <= size / 2: the
\* corner zones of a rounded output never overlap.
C25_RadiusWithinHalf ==
    /\ pc \notin {"main", "exit1"} =>
          /\ config.RadiusPercent \in 0..50
          /\ \A i \in 1..Len(iconSizes) :
                GoDiv(iconSizes[i].Size * config.RadiusPercent, 100)
                    \in 0..(iconSizes[i].Size \div 2)
    /\ \A k \in 1..Len(outputs) :
          outputs[k].variant = "rounded" =>
              /\ BeforePadding(outputs[k].img).radius >= 0
              /\ BeforePadding(outputs[k].img).radius <= outputs[k].Size \div 2
              /\ 2 * BeforePadding(outputs[k].img).radius
                     <= BeforePadding(outputs[k].img).size

C25_Witness ==
    /\ pc = "exit0"
    /\ config.RadiusPercent = 50
    /\ Len(outputs) = 22
    /\ BeforePadding(outputs[2].img).radius = 8
    /\ BeforePadding(outputs[22].img).radius = 512

\* C26: the names of the outputs of a run are pairwise distinct (the 11
\* names of the table and their 11 rounded derivations), so that no file is
\* written twice: every output saved so far is still in the directory as
\* it was written, and a finished run has left as many files as outputs.
C26_NamesDistinct ==
    /\ \A j, k \in 1..Len(outputs) :
          j # k => outputs[j].Name # outputs[k].Name
    /\ \A k \in 1..Len(outputs) :
          /\ outputs[k].Name \in DOMAIN files
          /\ files[outputs[k].Name] = [k |-> "png", img |-> outputs[k].img]
    /\ pc = "exit0" =>
          Cardinality({n \in DOMAIN files : files[n].k = "png"}) = Len(outputs)

C26_Witness ==
    /\ pc = "exit0"
    /\ Len(outputs) = 22
    /\ Cardinality({outputs[k].Name : k \in 1..22}) = 22
    /\ Cardinality({n \in DOMAIN files : files[n].k = "png"}) = 22

\* C27: the corner mask is mirror-symmetric: for every size, every radius in
\* 1..size / 2 and every pixel (x, y) of the square, shouldKeepPixel gives
\* at (size - 1 - x, y) and at (x, size - 1 - y) what it gives at (x, y).
C27_MirrorSymmetric ==
    (pc = "return" /\ call.radius >= 1 /\ 2 * call.radius <= call.size) =>
        /\ ret = shouldKeepPixel(call.size - 1 - call.x, call.y, call.size,
                                 call.radius)
        /\ ret = shouldKeepPixel(call.x, call.size - 1 - call.y, call.size,
                                 call.radius)

\* A call of resizeImage on a square source of at least 2 x 2 pixels with
\* targetSize its side.
SameSizeCall ==
    /\ call.img.w = call.img.h
    /\ call.img.w >= 2
    /\ call.size = call.img.w

\* C28: resizing a square S x S image with S >= 2 to targetSize S is the
\* identity: the returned buffer is S x S and every pixel of it, the last
\* row and the last column that the clamp handles included, is the source
\* pixel at the same position.
C28_SameSizeIdentity ==
    (pc = "return" /\ SameSizeCall) =>
        /\ ret.w = call.img.w
        /\ ret.h = call.img.h
        /\ \A x \in 0..(ret.w - 1), y \in 0..(ret.h - 1) :
               /\ Written(ret, x, y)
               /\ At(ret, x, y) = At(call.img, x, y)

C28_Witness ==
    /\ pc = "return"
    /\ SameSizeCall
    /\ call.img = SourceImage(16, 16, "coord")
    /\ ClampApplies(15, ret.scale, 16)
    /\ ~ClampApplies(14, ret.scale, 16)
    /\ At(ret, 15, 15) = <<15, 15, 45, 255>>
    /\ At(ret, 15, 3) = <<15, 3, 21, 255>>
    /\ At(ret, 14, 15) # At(ret, 15, 15)
====
